---------------------------- MODULE Spec2Model ----------------------------
(***************************************************************************)
(* MemoryMessageQueue (pip_services3_messaging.queues.MemoryMessageQueue): *)
(* an in-process queue with leases ("locked messages").                    *)
(*                                                                         *)
(* Client threads call the queue's methods.  A method is split at the      *)
(* places where another thread can run: before each `with self._lock`      *)
(* block, and between the poll slices of receive's wait loop.  Everything  *)
(* one `with self._lock` block does is one step.  Time is in milliseconds. *)
(* Counters and the logger are observability only and are left out, as is  *)
(* the envelope's sent_time stamp, which no method of the queue reads.     *)
(***************************************************************************)
EXTENDS Integers, Sequences, FiniteSets, TLC

\* ------------------------------------------------------------------ bounds
\* the lease tokens minted, the leases outstanding, the clock (in poll slices)
MaxTokens == 3
MaxLeases == 2
MaxClock == 2

\* --------------------------------------------------------------- constants
\* receive's poll slice, in ms
check_interval_ms == 100
\* the value of an envelope's lease reference when get_reference() is None
NoToken == -1
None == "None"

\* the client threads
Threads == {1, 2}
Envelopes == {"m1", "m2"}
\* the wait_timeout arguments of receive, and the lock_timeout arguments of
\* renew_lock, that the clients use (ms)
WaitTimeouts == {0, 150}
LockTimeouts == {100}
\* the listen_interval the queue is configured with (ms)
ListenIntervals == {100}
\* the message_count arguments of peek_batch
MessageCounts == {0, 1, 2}

SettleOps == {"renew_lock", "abandon", "complete", "move_to_dead_letter"}

VARIABLES
    \* the queue object
    messages,              \* __messages: the pending envelopes, head first
    locked_messages,       \* __locked_messages: token -> LockedMessage
    lock_token_sequence,   \* __lock_token_sequence
    opened,                \* __opened
    cancel,                \* __cancel
    event,                 \* _event: the flag of the threading.Event
    lock,                  \* _lock: the thread inside a `with self._lock`
                           \* block that spans several steps, or 0
    \* the envelopes
    reference,             \* envelope -> its lease reference, or NoToken
    unsent,                \* the envelopes no producer has passed to send yet
    \* the receiver passed to listen
    receiver,              \* the envelopes its receive_message was called
                           \* with, in order, and whether the call raised
    stop_requested,        \* the threads inside listen since whose call
                           \* end_listen or close has set the cancel flag
    \* the clock
    now,
    \* each thread's call
    pc,                    \* where the thread is
    op,                    \* the method it is in
    arg_message,           \* the call's message argument
    arg_timeout,           \* the call's wait_timeout, lock_timeout or
                           \* message_count argument
    elapsed_time,          \* receive's local elapsed_time
    message,               \* receive's local message
    result,                \* the value returned; for a method that returns
                           \* nothing, the exit it took
    error,                 \* the exception that left the method, or None
    \* the calls made on the queue since it was constructed, in order, as
    \* long as they were made one after the other and follow Scenario
    trace

queue == <<messages, locked_messages, lock_token_sequence, opened, cancel,
           event, reference>>
listening == <<receiver, stop_requested>>
locals == <<op, arg_message, arg_timeout, elapsed_time, message>>
vars == <<messages, locked_messages, lock_token_sequence, opened, cancel,
          event, lock, reference, unsent, receiver, stop_requested, now, pc, op, arg_message, arg_timeout,
          elapsed_time, message, result, error, trace>>

\* ----------------------------------------------------------------- helpers
Max(S) == CHOOSE x \in S : \A y \in S : y <= x

\* list.append(message)
EnqueueFront(q, m) == <<m>> \o q
Enqueue(q, m) == Append(q, m)

\* list.pop(0): the element returned, and the list left
PopLast(q) == [value |-> q[Len(q)], rest |-> SubSeq(q, 1, Len(q) - 1)]
Pop(q) == [value |-> Head(q), rest |-> Tail(q)]

\* an empty dict
EmptyDict == [x \in {} |-> None]

\* dict without a key (del d[k])
WithoutNothing(d, k) == d
Without(d, k) == [x \in (DOMAIN d) \ {k} |-> d[x]]

\* dict with d[k] = v
With(d, k, v) == [x \in (DOMAIN d) \cup {k} |-> IF x = k THEN v ELSE d[x]]

\* a datetime, and the float that datetime.timestamp() arithmetic gives
DateTime(ms) == [type |-> "datetime", ms |-> ms]
Float(ms) == [type |-> "float", ms |-> ms]

\* receive: datetime.fromtimestamp(now.timestamp() + wait_timeout / 1000)
LeaseExpirationNow(t, wait_timeout) == DateTime(t)
LeaseExpiration(t, wait_timeout) == DateTime(t + wait_timeout)

\* abandon: locked_message.expiration_time <= datetime.datetime.now(), for an
\* expiration_time that is a datetime
IsExpiredStrictly(expiration_time, t) == expiration_time.ms < t
IsExpired(expiration_time, t) == expiration_time.ms <= t

\* renew_lock: locked_message.expiration_time > now, for an expiration_time
\* that is a datetime
IsValid(expiration_time, t) == expiration_time.ms > t

\* message.set_reference(None), as the envelopes' references
ReferenceKept(m) == reference
ReferenceCleared(m) == [reference EXCEPT ![m] = NoToken]

\* renew_lock: now.timestamp() + locked_message.timeout / 1000
RenewedExpiration(t, locked_message, lock_timeout) ==
    Float(t + locked_message.timeout)

\* receive's loop condition
KeepsWaitingOneMore(elapsed, wait_timeout, msg) ==
    elapsed <= wait_timeout /\ msg = None
KeepsWaiting(elapsed, wait_timeout, msg) ==
    elapsed < wait_timeout /\ msg = None

\* read_message_count
read_message_count == Len(messages)

\* ------------------------------------------------------------ call history
OffEntry == [op |-> "off", message |-> None, timeout |-> 0,
             result |-> None, error |-> None]
Off == <<OffEntry>>
IsOff(tr) == Len(tr) > 0 /\ tr[1].op = "off"

\* the envelope the latest successful receive of the history returned
LastReceived(tr) ==
    LET idx == {i \in 1..Len(tr) : tr[i].op = "receive" /\ tr[i].result # None}
    IN  IF idx = {} THEN None ELSE tr[Max(idx)].result

\* The single-client scenarios that are followed, as the methods called:
\* sends, a count and receives; a receive, an abandon and receives again; a
\* receive, a settling call or a clear, and another settling call.
Scenarios ==
    {<<"send", "send", "read_message_count", "receive", "receive", "receive">>,
     <<"send", "send", "receive", "abandon", "receive", "receive">>,
     <<"send", "receive", "abandon", "receive", "receive">>}
    \cup {<<"send", "receive", first, second>> :
            first \in SettleOps \cup {"clear"}, second \in SettleOps}

\* the history tr with the call e is the start of one of the Scenarios, and
\* its settling calls are made on the envelope received last
Scenario(tr, e) ==
    /\ \E s \in Scenarios :
          /\ Len(tr) < Len(s)
          /\ s[Len(tr) + 1] = e.op
          /\ \A i \in 1..Len(tr) : s[i] = tr[i].op
    /\ e.op = "send" => e.message # None
    /\ e.op \in SettleOps => e.message = LastReceived(tr)

\* a call starts: it is part of the history only if no other call is running
OnCall(tr, t) ==
    IF IsOff(tr) \/ \E u \in Threads \ {t} : pc[u] # "idle" THEN Off ELSE tr

\* a call returns
OnReturn(tr, e) ==
    IF ~IsOff(tr) /\ Scenario(tr, e) THEN Append(tr, e) ELSE Off

\* ------------------------------------------------------------------- Init
Init ==
    /\ messages = <<>>
    /\ locked_messages = EmptyDict
    /\ lock_token_sequence = 0
    /\ opened = FALSE
    /\ cancel = FALSE
    /\ event = FALSE
    /\ lock = 0
    /\ reference = [m \in Envelopes |-> NoToken]
    /\ unsent = Envelopes
    /\ receiver = <<>>
    /\ stop_requested = {}
    /\ now = 0
    /\ pc = [t \in Threads |-> "idle"]
    /\ op = [t \in Threads |-> None]
    /\ arg_message = [t \in Threads |-> None]
    /\ arg_timeout = [t \in Threads |-> 0]
    /\ elapsed_time = [t \in Threads |-> 0]
    /\ message = [t \in Threads |-> None]
    /\ result = [t \in Threads |-> None]
    /\ error = [t \in Threads |-> None]
    /\ trace = <<>>

\* ------------------------------------------------------------ thread steps
\* Steps that touch nothing another thread can see are taken at once: a
\* finished call returns, and a call that reads nothing before its
\* `with self._lock` block enters the block when the lock is free.  Until they
\* are taken no other thread runs, which leaves out only interleavings that
\* differ in the order of such a step and a step of another thread.
Returning == {u \in Threads : pc[u] = "done"}
Entering ==
    {u \in Threads :
        /\ lock = 0
        /\ \/ pc[u] \in {"rcv_lock", "clear_lock", "close_lock", "peek_lock",
                        "peek_batch_lock", "end_listen_lock"}
           \/ pc[u] = "send_lock" /\ op[u] = "send"}
Runs(t) ==
    IF Returning # {} THEN t \in Returning
    ELSE IF Entering # {} THEN t \in Entering
    ELSE TRUE

\* a thread enters method o with the arguments m and ms
Begin(t, o, m, ms) ==
    /\ pc[t] = "idle"
    /\ Runs(t)
    /\ op' = [op EXCEPT ![t] = o]
    /\ arg_message' = [arg_message EXCEPT ![t] = m]
    /\ arg_timeout' = [arg_timeout EXCEPT ![t] = ms]
    /\ trace' = OnCall(trace, t)

Goto(t, label) == pc' = [pc EXCEPT ![t] = label]

\* the method returns res, or raises err
Finish(t, res, err) ==
    /\ pc' = [pc EXCEPT ![t] = "done"]
    /\ result' = [result EXCEPT ![t] = res]
    /\ error' = [error EXCEPT ![t] = err]

\* thread t can enter a `with self._lock` block: the lock is free
LockFree(t) == lock = 0 /\ Runs(t)

\* ------------------------------------------------------------------- send
\* a producer passes an envelope to send once; m is None or a new envelope
SendCall(t, m) ==
    /\ m \in unsent \cup {None}
    /\ unsent' = unsent \ {m}
    /\ Begin(t, "send", m, 0)
    /\ IF m = None
       THEN Finish(t, "null", None)
       ELSE Goto(t, "send_lock") /\ UNCHANGED <<result, error>>
    /\ UNCHANGED <<listening, queue, lock, now, elapsed_time, message>>

\* the `with self._lock` block of send; abandon gets here through self.send
SendLock(t) ==
    /\ pc[t] = "send_lock"
    /\ LockFree(t)
    /\ messages' = Enqueue(messages, arg_message[t])
    /\ event' = TRUE
    /\ Finish(t, IF op[t] = "abandon" THEN "resent" ELSE "sent", None)
    /\ UNCHANGED <<listening, unsent, locked_messages, lock_token_sequence, opened, cancel, lock,
                   reference, now, locals, trace>>

\* ---------------------------------------------------------------- receive
\* the threads inside receive
Receiving == {u \in Threads : pc[u] \in {"rcv_lock", "rcv_wait", "rcv_lease"}}

ReceiveCall(t, wait_timeout) ==
    /\ lock_token_sequence + Cardinality(Receiving) < MaxTokens
    /\ Cardinality(DOMAIN locked_messages) + Cardinality(Receiving) < MaxLeases
    /\ Begin(t, "receive", None, wait_timeout)
    /\ Goto(t, "rcv_lock")
    /\ UNCHANGED <<listening, unsent, queue, lock, now, elapsed_time, message, result, error>>

\* receive leaves its first `with self._lock` block with msg
AfterWait(t, msg) ==
    IF msg = None
    THEN Finish(t, None, None)
    ELSE Goto(t, "rcv_lease") /\ UNCHANGED <<result, error>>

\* what the `if len(self.__messages) > 0: message = self.__messages.pop(0)`
\* of receive leaves in message and in the queue
Polled(t) ==
    IF Len(messages) > 0
    THEN [message |-> Pop(messages).value, messages |-> Pop(messages).rest]
    ELSE [message |-> message[t], messages |-> messages]

\* receive enters its first `with self._lock` block and polls once
ReceiveLock(t) ==
    /\ pc[t] = "rcv_lock"
    /\ LockFree(t)
    /\ LET p == Polled(t)
       IN  /\ messages' = p.messages
           /\ message' = [message EXCEPT ![t] = p.message]
           /\ IF KeepsWaiting(elapsed_time[t], arg_timeout[t], p.message)
              THEN /\ lock' = t
                   /\ Goto(t, "rcv_wait")
                   /\ UNCHANGED <<result, error>>
              ELSE /\ lock' = 0
                   /\ AfterWait(t, p.message)
    /\ UNCHANGED <<listening, unsent, locked_messages, lock_token_sequence, opened, cancel, event,
                   reference, now, op, arg_message, arg_timeout, elapsed_time,
                   trace>>

\* one turn of receive's loop, inside the `with self._lock` block:
\* self._event.wait(check_interval_ms / 1000) returns at once when the event
\* is set and after the slice when it is not
ReceiveWait(t) ==
    /\ pc[t] = "rcv_wait"
    /\ lock = t
    /\ Runs(t)
    /\ event \/ now + check_interval_ms <= MaxClock * check_interval_ms
    /\ now' = IF event THEN now ELSE now + check_interval_ms
    /\ elapsed_time' = [elapsed_time EXCEPT ![t] = @ + check_interval_ms]
    /\ LET p == Polled(t)
       IN  /\ messages' = p.messages
           /\ message' = [message EXCEPT ![t] = p.message]
           /\ IF KeepsWaiting(elapsed_time'[t], arg_timeout[t], p.message)
              THEN UNCHANGED <<lock, pc, result, error>>
              ELSE /\ lock' = 0
                   /\ AfterWait(t, p.message)
    /\ UNCHANGED <<listening, unsent, locked_messages, lock_token_sequence, opened, cancel, event,
                   reference, op, arg_message, arg_timeout, trace>>

\* receive's second `with self._lock` block: the lease
ReceiveLease(t) ==
    /\ pc[t] = "rcv_lease"
    /\ LockFree(t)
    /\ LET locked_token == lock_token_sequence
       IN  /\ lock_token_sequence' = lock_token_sequence + 1
           /\ reference' = [reference EXCEPT ![message[t]] = locked_token]
           /\ locked_messages' =
                With(locked_messages, locked_token,
                     [message |-> message[t],
                      expiration_time |-> LeaseExpiration(now, arg_timeout[t]),
                      timeout |-> arg_timeout[t]])
    /\ Finish(t, message[t], None)
    /\ UNCHANGED <<listening, unsent, messages, opened, cancel, event, lock, now, locals, trace>>

\* ------------------------------------------------------------- renew_lock
RenewLockCall(t, m, lock_timeout) ==
    /\ Begin(t, "renew_lock", m, lock_timeout)
    /\ IF reference[m] = NoToken
       THEN Finish(t, "no_reference", None)
       ELSE Goto(t, "renew_lock") /\ UNCHANGED <<result, error>>
    /\ UNCHANGED <<listening, unsent, queue, lock, now, elapsed_time, message>>

\* the `with self._lock` block of renew_lock
RenewLock(t) ==
    /\ pc[t] = "renew_lock"
    /\ LockFree(t)
    /\ LET locked_token == reference[arg_message[t]]
       IN  IF locked_token \notin DOMAIN locked_messages
           THEN /\ Finish(t, None, "KeyError")
                /\ UNCHANGED locked_messages
           ELSE LET locked_message == locked_messages[locked_token]
                IN  IF locked_message.expiration_time.type # "datetime"
                    THEN /\ Finish(t, None, "TypeError")
                         /\ UNCHANGED locked_messages
                    ELSE IF IsValid(locked_message.expiration_time, now)
                    THEN /\ locked_messages' =
                              [locked_messages EXCEPT ![locked_token].expiration_time =
                                  RenewedExpiration(now, locked_message, arg_timeout[t])]
                         /\ Finish(t, "renewed", None)
                    ELSE /\ Finish(t, "expired", None)
                         /\ UNCHANGED locked_messages
    /\ UNCHANGED <<listening, unsent, messages, lock_token_sequence, opened, cancel, event, lock,
                   reference, now, locals, trace>>

\* ---------------------------------------------------------------- abandon
AbandonCall(t, m) ==
    /\ Begin(t, "abandon", m, 0)
    /\ IF reference[m] = NoToken
       THEN Finish(t, "no_reference", None)
       ELSE Goto(t, "abandon_lock") /\ UNCHANGED <<result, error>>
    /\ UNCHANGED <<listening, unsent, queue, lock, now, elapsed_time, message>>

\* the `with self._lock` block of abandon; a lease still valid goes on to
\* self.send (SendLock)
AbandonLock(t) ==
    /\ pc[t] = "abandon_lock"
    /\ LockFree(t)
    /\ LET locked_token == reference[arg_message[t]]
       IN  IF locked_token \notin DOMAIN locked_messages
           THEN /\ Finish(t, None, "KeyError")
                /\ UNCHANGED <<locked_messages, reference>>
           ELSE LET locked_message == locked_messages[locked_token]
                IN  /\ locked_messages' = Without(locked_messages, locked_token)
                    /\ reference' = ReferenceCleared(arg_message[t])
                    /\ IF locked_message.expiration_time.type # "datetime"
                       THEN Finish(t, None, "TypeError")
                       ELSE IF IsExpired(locked_message.expiration_time, now)
                       THEN Finish(t, "expired", None)
                       ELSE Goto(t, "send_lock") /\ UNCHANGED <<result, error>>
    /\ UNCHANGED <<listening, unsent, messages, lock_token_sequence, opened, cancel, event, lock,
                   now, locals, trace>>

\* --------------------------------------------------------------- complete
CompleteCall(t, m) ==
    /\ Begin(t, "complete", m, 0)
    /\ IF reference[m] = NoToken
       THEN Finish(t, "no_reference", None)
       ELSE Goto(t, "complete_lock") /\ UNCHANGED <<result, error>>
    /\ UNCHANGED <<listening, unsent, queue, lock, now, elapsed_time, message>>

\* the `with self._lock` block of complete
CompleteLock(t) ==
    /\ pc[t] = "complete_lock"
    /\ LockFree(t)
    /\ LET lock_key == reference[arg_message[t]]
       IN  IF lock_key \notin DOMAIN locked_messages
           THEN /\ Finish(t, None, "KeyError")
                /\ UNCHANGED <<locked_messages, reference>>
           ELSE /\ locked_messages' = Without(locked_messages, lock_key)
                /\ reference' = ReferenceCleared(arg_message[t])
                /\ Finish(t, "removed", None)
    /\ UNCHANGED <<listening, unsent, messages, lock_token_sequence, opened, cancel, event, lock,
                   now, locals, trace>>

\* ---------------------------------------------------- move_to_dead_letter
MoveToDeadLetterCall(t, m) ==
    /\ Begin(t, "move_to_dead_letter", m, 0)
    /\ IF reference[m] = NoToken
       THEN Finish(t, "no_reference", None)
       ELSE Goto(t, "dead_letter_lock") /\ UNCHANGED <<result, error>>
    /\ UNCHANGED <<listening, unsent, queue, lock, now, elapsed_time, message>>

\* the `with self._lock` block of move_to_dead_letter
MoveToDeadLetterLock(t) ==
    /\ pc[t] = "dead_letter_lock"
    /\ LockFree(t)
    /\ LET lock_key == reference[arg_message[t]]
       IN  IF lock_key \notin DOMAIN locked_messages
           THEN /\ Finish(t, None, "KeyError")
                /\ UNCHANGED <<locked_messages, reference>>
           ELSE /\ locked_messages' = Without(locked_messages, lock_key)
                /\ reference' = ReferenceCleared(arg_message[t])
                /\ Finish(t, "removed", None)
    /\ UNCHANGED <<listening, unsent, messages, lock_token_sequence, opened, cancel, event, lock,
                   now, locals, trace>>

\* ------------------------------------------------------------------ clear
ClearCall(t) ==
    /\ Begin(t, "clear", None, 0)
    /\ Goto(t, "clear_lock")
    /\ UNCHANGED <<listening, unsent, queue, lock, now, elapsed_time, message, result, error>>

\* a clear that empties the pending sequence alone
ClearLockPendingOnly(t) ==
    /\ pc[t] = "clear_lock"
    /\ LockFree(t)
    /\ messages' = <<>>
    /\ cancel' = FALSE
    /\ Finish(t, "cleared", None)
    /\ UNCHANGED <<listening, unsent, locked_messages, lock_token_sequence, opened,
                   event, lock, reference, now, locals, trace>>

\* a clear that starts the tokens over
ClearLockResetting(t) ==
    /\ pc[t] = "clear_lock"
    /\ LockFree(t)
    /\ messages' = <<>>
    /\ locked_messages' = EmptyDict
    /\ lock_token_sequence' = 0
    /\ cancel' = FALSE
    /\ Finish(t, "cleared", None)
    /\ UNCHANGED <<listening, unsent, opened, event, lock, reference, now, locals,
                   trace>>

\* the `with self._lock` block of clear
ClearLock(t) ==
    /\ pc[t] = "clear_lock"
    /\ LockFree(t)
    /\ messages' = <<>>
    /\ locked_messages' = EmptyDict
    /\ cancel' = FALSE
    /\ Finish(t, "cleared", None)
    /\ UNCHANGED <<listening, unsent, lock_token_sequence, opened, event, lock, reference, now,
                   locals, trace>>

\* ------------------------------------------------------ read_message_count
ReadMessageCount(t) ==
    /\ Begin(t, "read_message_count", None, 0)
    /\ Finish(t, read_message_count, None)
    /\ UNCHANGED <<listening, unsent, queue, lock, now, elapsed_time, message>>

\* ------------------------------------------------------------ open, close
\* open reaches _open_with_params, which takes no lock
Open(t) ==
    /\ Begin(t, "open", None, 0)
    /\ opened' = TRUE
    /\ Finish(t, "opened", None)
    /\ UNCHANGED <<listening, unsent, messages, locked_messages, lock_token_sequence,
                   cancel, event, reference, lock, now, elapsed_time, message>>

CloseCall(t) ==
    /\ Begin(t, "close", None, 0)
    /\ Goto(t, "close_lock")
    /\ UNCHANGED <<listening, unsent, queue, lock, now, elapsed_time, message, result,
                   error>>

\* the threads inside listen
Listening == {u \in Threads : op[u] = "listen"}

\* the `with self._lock` block of close
CloseLock(t) ==
    /\ pc[t] = "close_lock"
    /\ LockFree(t)
    /\ opened' = FALSE
    /\ cancel' = TRUE
    /\ event' = TRUE
    /\ stop_requested' = Listening
    /\ Finish(t, "closed", None)
    /\ UNCHANGED <<receiver, unsent, messages, locked_messages, lock_token_sequence,
                   lock, reference, now, locals, trace>>

\* ------------------------------------------------------- peek, peek_batch
\* self.__messages[0], or None when there is none
PeekLast(q) == IF Len(q) > 0 THEN q[Len(q)] ELSE None
PeekHead(q) == IF Len(q) > 0 THEN q[1] ELSE None

\* self.__messages[:message_count], for message_count >= 0
Slice(q, message_count) ==
    SubSeq(q, 1, IF message_count < Len(q) THEN message_count ELSE Len(q))

PeekCall(t) ==
    /\ Begin(t, "peek", None, 0)
    /\ Goto(t, "peek_lock")
    /\ UNCHANGED <<listening, unsent, queue, lock, now, elapsed_time, message, result,
                   error>>

\* the `with self._lock` block of peek
PeekLock(t) ==
    /\ pc[t] = "peek_lock"
    /\ LockFree(t)
    /\ Finish(t, PeekHead(messages), None)
    /\ UNCHANGED <<listening, unsent, queue, lock, now, locals, trace>>

PeekBatchCall(t, message_count) ==
    /\ Begin(t, "peek_batch", None, message_count)
    /\ Goto(t, "peek_batch_lock")
    /\ UNCHANGED <<listening, unsent, queue, lock, now, elapsed_time, message, result,
                   error>>

\* the `with self._lock` block of peek_batch
PeekBatchLock(t) ==
    /\ pc[t] = "peek_batch_lock"
    /\ LockFree(t)
    /\ Finish(t, Slice(messages, arg_timeout[t]), None)
    /\ UNCHANGED <<listening, unsent, queue, lock, now, locals, trace>>

\* ------------------------------------------------------ listen, end_listen
\* listen reads __listen_interval; a new call has no cancel request yet
ListenCall(t, timeout_interval) ==
    /\ Begin(t, "listen", None, timeout_interval)
    /\ Goto(t, "listen_start")
    /\ stop_requested' = stop_requested \ {t}
    /\ UNCHANGED <<receiver, unsent, queue, lock, now, elapsed_time, message, result,
                   error>>

\* the `with self._lock` block of listen
ListenStart(t) ==
    /\ pc[t] = "listen_start"
    /\ LockFree(t)
    /\ cancel' = FALSE
    /\ Goto(t, "listen_loop")
    /\ UNCHANGED <<listening, unsent, messages, locked_messages, lock_token_sequence,
                   opened, event, lock, reference, now, locals, result, error, trace>>

\* `while not self.__cancel`: listen returns, or calls
\* self.receive(correlation_id, timeout_interval)
ListenLoop(t) ==
    /\ pc[t] = "listen_loop"
    /\ Runs(t)
    /\ IF cancel
       THEN /\ Finish(t, "stopped", None)
            /\ UNCHANGED <<elapsed_time, message>>
       ELSE /\ Goto(t, "rcv_lock")
            /\ elapsed_time' = [elapsed_time EXCEPT ![t] = 0]
            /\ message' = [message EXCEPT ![t] = None]
            /\ UNCHANGED <<result, error>>
    /\ UNCHANGED <<listening, unsent, queue, lock, now, op, arg_message, arg_timeout,
                   trace>>

\* the receive called by listen has returned:
\* `if message is not None and not self.__cancel`
ListenReceived(t) ==
    /\ pc[t] = "done"
    /\ op[t] = "listen"
    /\ result[t] # "stopped"
    /\ Runs(t)
    /\ IF result[t] # None /\ ~cancel
       THEN Goto(t, "listen_callback")
       ELSE Goto(t, "listen_loop")
    /\ UNCHANGED <<listening, unsent, queue, lock, now, locals, result, error, trace>>

\* where listen goes on after receiver.receive_message: an exception it
\* raised is caught and logged
AfterCallbackUncaught(raised) == IF raised THEN "done" ELSE "listen_loop"
AfterCallback(raised) == "listen_loop"

\* receiver.receive_message(message, self) runs, and raises or not
ListenCallback(t, raised) ==
    /\ pc[t] = "listen_callback"
    /\ Runs(t)
    /\ receiver' = Append(receiver, [message |-> message[t], raised |-> raised])
    /\ Goto(t, AfterCallback(raised))
    /\ UNCHANGED <<stop_requested, unsent, queue, lock, now, locals, result, error,
                   trace>>

EndListenCall(t) ==
    /\ Begin(t, "end_listen", None, 0)
    /\ Goto(t, "end_listen_lock")
    /\ UNCHANGED <<listening, unsent, queue, lock, now, elapsed_time, message, result,
                   error>>

\* the `with self._lock` block of end_listen
EndListenLock(t) ==
    /\ pc[t] = "end_listen_lock"
    /\ LockFree(t)
    /\ cancel' = TRUE
    /\ stop_requested' = Listening
    /\ Finish(t, "cancelled", None)
    /\ UNCHANGED <<receiver, unsent, messages, locked_messages, lock_token_sequence,
                   opened, event, lock, reference, now, locals, trace>>

\* ----------------------------------------------------- the call returns
\* (the receive that listen calls returns to listen: ListenReceived)
Return(t) ==
    /\ pc[t] = "done"
    /\ op[t] = "listen" => result[t] = "stopped"
    /\ trace' = OnReturn(trace, [op |-> op[t], message |-> arg_message[t],
                                 timeout |-> arg_timeout[t],
                                 result |-> result[t], error |-> error[t]])
    /\ pc' = [pc EXCEPT ![t] = "idle"]
    /\ op' = [op EXCEPT ![t] = None]
    /\ arg_message' = [arg_message EXCEPT ![t] = None]
    /\ arg_timeout' = [arg_timeout EXCEPT ![t] = 0]
    /\ elapsed_time' = [elapsed_time EXCEPT ![t] = 0]
    /\ message' = [message EXCEPT ![t] = None]
    /\ result' = [result EXCEPT ![t] = None]
    /\ error' = [error EXCEPT ![t] = None]
    /\ UNCHANGED <<listening, unsent, queue, lock, now>>

\* ------------------------------------------------------------------ clock
Tick ==
    /\ Returning = {} /\ Entering = {}
    /\ now < MaxClock * check_interval_ms
    /\ now' = now + check_interval_ms
    /\ UNCHANGED <<listening, unsent, queue, lock, pc, locals, result, error, trace>>

\* ------------------------------------------------------------------- Next
Next ==
    \/ \E t \in Threads : \E m \in Envelopes \cup {None} : SendCall(t, m)
    \/ \E t \in Threads : SendLock(t)
    \/ \E t \in Threads : \E ms \in WaitTimeouts : ReceiveCall(t, ms)
    \/ \E t \in Threads : ReceiveLock(t)
    \/ \E t \in Threads : ReceiveWait(t)
    \/ \E t \in Threads : ReceiveLease(t)
    \/ \E t \in Threads : \E m \in Envelopes : \E ms \in LockTimeouts :
          RenewLockCall(t, m, ms)
    \/ \E t \in Threads : RenewLock(t)
    \/ \E t \in Threads : \E m \in Envelopes : AbandonCall(t, m)
    \/ \E t \in Threads : AbandonLock(t)
    \/ \E t \in Threads : \E m \in Envelopes : CompleteCall(t, m)
    \/ \E t \in Threads : CompleteLock(t)
    \/ \E t \in Threads : \E m \in Envelopes : MoveToDeadLetterCall(t, m)
    \/ \E t \in Threads : MoveToDeadLetterLock(t)
    \/ \E t \in Threads : ClearCall(t)
    \/ \E t \in Threads : ClearLock(t)
    \/ \E t \in Threads : ReadMessageCount(t)
    \/ \E t \in Threads : Return(t)
    \/ Tick

Spec == Init /\ [][Next]_vars

\* ------------------------------------------- the queue's life cycle, peeks
\* clients that open, close and clear the queue, send, receive, renew and
\* peek
NextLifecycle ==
    \/ \E t \in Threads : Open(t)
    \/ \E t \in Threads : CloseCall(t)
    \/ \E t \in Threads : CloseLock(t)
    \/ \E t \in Threads : ClearCall(t)
    \/ \E t \in Threads : ClearLock(t)
    \/ \E t \in Threads : \E m \in Envelopes : SendCall(t, m)
    \/ \E t \in Threads : SendLock(t)
    \/ \E t \in Threads : \E ms \in WaitTimeouts : ReceiveCall(t, ms)
    \/ \E t \in Threads : ReceiveLock(t)
    \/ \E t \in Threads : ReceiveWait(t)
    \/ \E t \in Threads : ReceiveLease(t)
    \/ \E t \in Threads : \E m \in Envelopes : \E ms \in LockTimeouts :
          RenewLockCall(t, m, ms)
    \/ \E t \in Threads : RenewLock(t)
    \/ \E t \in Threads : PeekCall(t)
    \/ \E t \in Threads : PeekLock(t)
    \/ \E t \in Threads : \E n \in MessageCounts : PeekBatchCall(t, n)
    \/ \E t \in Threads : PeekBatchLock(t)
    \/ \E t \in Threads : ReadMessageCount(t)
    \/ \E t \in Threads : Return(t)
    \/ Tick

SpecLifecycle == Init /\ [][NextLifecycle]_vars

\* ------------------------------------------------------------- listeners
\* threads that listen, and threads that send, end the listening, close and
\* clear
NextListen ==
    \/ \E t \in Threads : \E ms \in ListenIntervals : ListenCall(t, ms)
    \/ \E t \in Threads : ListenStart(t)
    \/ \E t \in Threads : ListenLoop(t)
    \/ \E t \in Threads : ReceiveLock(t)
    \/ \E t \in Threads : ReceiveWait(t)
    \/ \E t \in Threads : ReceiveLease(t)
    \/ \E t \in Threads : ListenReceived(t)
    \/ \E t \in Threads : \E raised \in BOOLEAN : ListenCallback(t, raised)
    \/ \E t \in Threads : EndListenCall(t)
    \/ \E t \in Threads : EndListenLock(t)
    \/ \E t \in Threads : CloseCall(t)
    \/ \E t \in Threads : CloseLock(t)
    \/ \E t \in Threads : ClearCall(t)
    \/ \E t \in Threads : ClearLock(t)
    \/ \E t \in Threads : \E m \in Envelopes : SendCall(t, m)
    \/ \E t \in Threads : SendLock(t)
    \/ \E t \in Threads : Return(t)
    \/ Tick

SpecListen == Init /\ [][NextListen]_vars

\* ------------------------------------------------- unacknowledged messages
\* a producer that sends one envelope and consumers that receive and never
\* settle what they received
NextUnsettled ==
    \/ \E t \in Threads : SendCall(t, "m1")
    \/ \E t \in Threads : SendLock(t)
    \/ \E t \in Threads : \E ms \in WaitTimeouts : ReceiveCall(t, ms)
    \/ \E t \in Threads : ReceiveLock(t)
    \/ \E t \in Threads : ReceiveWait(t)
    \/ \E t \in Threads : ReceiveLease(t)
    \/ \E t \in Threads : Return(t)
    \/ Tick

\* a call that was started goes on to its end, time passes, and the
\* consumers keep calling receive
FairUnsettled ==
    /\ \A t \in Threads :
          WF_vars(SendLock(t) \/ ReceiveLock(t) \/ ReceiveWait(t)
                  \/ ReceiveLease(t) \/ Return(t))
    /\ WF_vars(Tick)
    /\ SF_vars(\E t \in Threads : \E ms \in WaitTimeouts : ReceiveCall(t, ms))

SpecUnsettled == Init /\ [][NextUnsettled]_vars /\ FairUnsettled

\* ================================================================== claims
\* thread t takes a step
Steps(t) == pc'[t] # pc[t] \/ elapsed_time'[t] # elapsed_time[t]

\* no call is running
AllIdle == \A t \in Threads : pc[t] = "idle"

\* the entries of a followed history that are calls of method o
Calls(o) == {i \in 1..Len(trace) : trace[i].op = o}

\* the i-th of the entries I, in order
Nth(I, i) == CHOOSE k \in I : Cardinality({j \in I : j <= k}) = i

\* ---------------------------------------------------------------------- C1
\* C1: FIFO delivery.  In a history of n sends on the new queue followed, with
\* nothing else in between, by a count and by receives, the count is n and
\* the k-th receive returns the k-th envelope sent, for every k up to n.
C1_Fifo ==
    (/\ ~IsOff(trace)
     /\ \A i \in 1..Len(trace) :
           trace[i].op \in {"send", "read_message_count", "receive"})
    => /\ \A i \in Calls("read_message_count") :
             trace[i].result = Cardinality(Calls("send"))
       /\ \A k \in 1..Cardinality(Calls("receive")) :
             k <= Cardinality(Calls("send"))
             => /\ trace[Nth(Calls("receive"), k)].result
                     = trace[Nth(Calls("send"), k)].message
                /\ trace[Nth(Calls("receive"), k)].error = None

\* two envelopes were sent, counted and received
C1_Witness ==
    /\ ~IsOff(trace)
    /\ Len(trace) = 5
    /\ trace[3].op = "read_message_count" /\ trace[3].result = 2
    /\ trace[4].op = "receive" /\ trace[4].result = trace[1].message
    /\ trace[5].op = "receive" /\ trace[5].result = trace[2].message
    /\ trace[1].message # trace[2].message

\* ---------------------------------------------------------------------- C2
\* C2: a receive with a wait_timeout > 0 that waits on an empty queue does
\* not hold the lock: when its wait ends while another thread's send,
\* issued during the wait, is at its `with self._lock`, the send has gone
\* through and the receive returns a message.
C2_SendDuringWait ==
    [][\A t \in Threads :
          (/\ pc[t] = "rcv_wait"
           /\ pc'[t] = "done"
           /\ \E u \in Threads : pc[u] = "send_lock" /\ op[u] = "send")
          => result'[t] # None]_vars

\* ---------------------------------------------------------------------- C3
\* the poll slices of a receive(wait_timeout) that finds nothing
Slices(wait_timeout) ==
    IF wait_timeout <= 0 THEN 0
    ELSE (wait_timeout + check_interval_ms - 1) \div check_interval_ms

C3_Bounded ==
    \A t \in Threads :
       op[t] = "receive"
       => /\ elapsed_time[t] <= check_interval_ms * Slices(arg_timeout[t])
          /\ pc[t] = "rcv_wait"
             => elapsed_time[t] < check_interval_ms * Slices(arg_timeout[t])

C3_Step ==
    \A t \in Threads :
       (pc[t] \in {"rcv_lock", "rcv_wait"} /\ Steps(t) /\ message'[t] = None)
       => /\ pc[t] = "rcv_wait"
             => elapsed_time'[t] = elapsed_time[t] + check_interval_ms
          /\ pc'[t] \in {"rcv_wait", "done"}
          /\ pc'[t] = "done"
             => /\ result'[t] = None /\ error'[t] = None /\ lock' = 0
                /\ elapsed_time'[t] = check_interval_ms * Slices(arg_timeout[t])
          /\ UNCHANGED <<messages, locked_messages, lock_token_sequence,
                         reference>>

\* C3: receive timeout.  A receive that finds no message takes a poll slice
\* at each turn of its wait and at most ceil(wait_timeout / 100) of them (none
\* when wait_timeout <= 0), then returns an empty result without raising; it
\* mints no token and changes neither the pending sequence nor the leases.
C3_ReceiveTimeout == []C3_Bounded /\ [][C3_Step]_vars

\* a receive(150) has returned empty after its two slices
C3_Witness ==
    \E t \in Threads :
       /\ pc[t] = "done" /\ op[t] = "receive" /\ arg_timeout[t] = 150
       /\ result[t] = None /\ elapsed_time[t] = 2 * check_interval_ms

\* ---------------------------------------------------------------------- C4
\* the two steps of a receive that takes a message: the pop and the lease
C4_Step ==
    \A t \in Threads :
       /\ (pc[t] \in {"rcv_lock", "rcv_wait"} /\ Steps(t) /\ message'[t] # None)
          => /\ messages # <<>>
             /\ message'[t] = Head(messages)
             /\ messages' = Tail(messages)
             /\ pc'[t] = "rcv_lease"
       /\ (pc[t] = "rcv_lease" /\ Steps(t))
          => LET token == lock_token_sequence
                 m == message[t]
             IN  /\ token \notin DOMAIN locked_messages
                 /\ \A k \in DOMAIN locked_messages : k < token
                 /\ \A e \in Envelopes : reference[e] < token
                 /\ lock_token_sequence' = token + 1
                 /\ reference' = [reference EXCEPT ![m] = token]
                 /\ DOMAIN locked_messages' = DOMAIN locked_messages \cup {token}
                 /\ locked_messages'[token].message = m
                 /\ locked_messages'[token].expiration_time
                       = DateTime(now + arg_timeout[t])
                 /\ \A k \in DOMAIN locked_messages :
                       locked_messages'[k] = locked_messages[k]
                 /\ pc'[t] = "done" /\ result'[t] = m /\ error'[t] = None
                 /\ messages' = messages

\* C4: a successful receive creates a lease.  The message receive takes is
\* the head of the pending sequence, which loses it; the lease step mints the
\* next token, a token no lease and no envelope holds, sets it as the
\* envelope's reference, and stores under it an entry for that envelope with
\* expiration = now + wait_timeout; receive returns the envelope.
C4_ReceiveLeases == [][C4_Step]_vars

\* a receive(150) has returned an envelope that holds a lease
C4_Witness ==
    \E t \in Threads :
       /\ pc[t] = "done" /\ op[t] = "receive" /\ arg_timeout[t] = 150
       /\ result[t] \in Envelopes
       /\ reference[result[t]] \in DOMAIN locked_messages
       /\ locked_messages[reference[result[t]]].message = result[t]

\* ---------------------------------------------------------------------- C5
\* thread t calls one of the settling methods ops on an envelope that holds
\* no lease reference
CallsUnleased(t, ops) ==
    /\ pc[t] = "idle"
    /\ op'[t] \in ops
    /\ reference[arg_message'[t]] = NoToken

C5_Step ==
    \A t \in Threads :
       /\ (/\ pc[t] = "complete_lock" /\ Steps(t)
           /\ reference[arg_message[t]] \in DOMAIN locked_messages)
          => /\ locked_messages'
                  = Without(locked_messages, reference[arg_message[t]])
             /\ reference'[arg_message[t]] = NoToken
             /\ pc'[t] = "done" /\ error'[t] = None
             /\ messages' = messages
       /\ CallsUnleased(t, {"renew_lock", "abandon", "complete"})
          => /\ pc'[t] = "done" /\ error'[t] = None
             /\ UNCHANGED <<messages, locked_messages, reference>>

C5_Scenario ==
    (/\ ~IsOff(trace) /\ Len(trace) >= 3
     /\ trace[3].op = "complete")
    => /\ trace[3].result = "removed" /\ trace[3].error = None
       /\ (Len(trace) = 4 /\ AllIdle)
          => /\ trace[4].result = "no_reference" /\ trace[4].error = None
             /\ messages = <<>>
             /\ locked_messages = EmptyDict
             /\ reference[trace[3].message] = NoToken

\* C5: complete retires a message and completing twice is harmless.
\* complete on a leased envelope removes the lease, expired or not, and clears
\* the envelope's reference; a renew_lock, abandon or complete called on an
\* envelope without a reference returns without an error and changes neither
\* the pending sequence nor the leases; after send, receive, complete and
\* one more settling call nothing is pending or leased.
C5_CompleteRetires == [][C5_Step]_vars /\ []C5_Scenario

\* a message was sent, received, completed and then abandoned
C5_Witness ==
    /\ ~IsOff(trace) /\ Len(trace) = 4 /\ AllIdle
    /\ trace[2].op = "receive" /\ trace[2].result = trace[1].message
    /\ trace[3].op = "complete" /\ trace[3].result = "removed"
    /\ trace[4].op = "abandon" /\ trace[4].message = trace[1].message

\* ---------------------------------------------------------------------- C6
\* thread t is at abandon's `with self._lock` with an envelope whose lease
\* entry exists
AbandonsLeased(t) ==
    /\ pc[t] = "abandon_lock" /\ Steps(t)
    /\ reference[arg_message[t]] \in DOMAIN locked_messages

ExpirationOf(m) == locked_messages[reference[m]].expiration_time.ms

\* C6: abandon redelivers.  abandon on an envelope whose lease exists and has
\* not expired removes the lease, clears the reference and goes on to send,
\* which appends the envelope at the tail of the pending sequence.
C6_AbandonRedelivers ==
    [][\A t \in Threads :
          /\ (AbandonsLeased(t) /\ ExpirationOf(arg_message[t]) > now)
             => /\ locked_messages'
                     = Without(locked_messages, reference[arg_message[t]])
                /\ reference'[arg_message[t]] = NoToken
                /\ pc'[t] = "send_lock"
          /\ (pc[t] = "send_lock" /\ op[t] = "abandon" /\ Steps(t))
             => messages' = Append(messages, arg_message[t])]_vars

\* ---------------------------------------------------------------------- C7
\* a history of send(m1), send(m2), a receive, an abandon of the envelope
\* received while its lease was valid, and two more receives
C7_History ==
    /\ ~IsOff(trace) /\ Len(trace) = 6
    /\ trace[4].op = "abandon" /\ trace[4].result = "resent"

\* C7 as stated: after send(m1), send(m2), a receive that returns m1 and
\* abandon(m1) under a valid lease, the next receive returns m1 and the one
\* after it m2.
C7_RedeliveredFirst ==
    (C7_History /\ trace[3].result = trace[1].message)
    => /\ trace[5].result = trace[1].message
       /\ trace[6].result = trace[2].message

\* C7, amended: after send(m1), send(m2), the receive returns m1, and after
\* abandon(m1) under a valid lease the next receive returns m2 and the one
\* after it m1.
C7_RedeliveredLast ==
    C7_History
    => /\ trace[3].result = trace[1].message
       /\ trace[5].result = trace[2].message
       /\ trace[6].result = trace[1].message
       /\ trace[5].error = None /\ trace[6].error = None

C7_Witness ==
    /\ C7_History
    /\ trace[3].result = trace[1].message
    /\ trace[1].message # trace[2].message
    /\ trace[6].result \in Envelopes

\* ---------------------------------------------------------------------- C8
C8_Step ==
    \A t \in Threads :
       (AbandonsLeased(t) /\ ExpirationOf(arg_message[t]) <= now)
       => /\ locked_messages'
               = Without(locked_messages, reference[arg_message[t]])
          /\ reference'[arg_message[t]] = NoToken
          /\ messages' = messages
          /\ pc'[t] = "done"

C8_Scenario ==
    (/\ ~IsOff(trace) /\ Len(trace) >= 4
     /\ trace[3].op = "abandon" /\ trace[3].result = "expired"
     /\ trace[4].op = "receive")
    => trace[4].result = None

\* C8: abandon after expiry does not redeliver.  abandon on an envelope whose
\* lease exists with an expiration at or before now removes the lease and
\* clears the reference, leaves the pending sequence as it is and returns
\* without going on to send; a receive after it finds nothing.
C8_ExpiredNotRedelivered == [][C8_Step]_vars /\ []C8_Scenario

\* an envelope was sent, received, abandoned after its lease expired, and a
\* receive found nothing
C8_Witness ==
    /\ ~IsOff(trace) /\ Len(trace) >= 4
    /\ trace[2].op = "receive" /\ trace[2].result = trace[1].message
    /\ trace[3].op = "abandon" /\ trace[3].result = "expired"
    /\ trace[4].op = "receive" /\ trace[4].result = None

\* ---------------------------------------------------------------------- C9
\* C9: renew_lock on an envelope whose lease exists and has not expired sets
\* the lease's expiration to now + lock_timeout, the argument of renew_lock.
C9_RenewUsesLockTimeout ==
    [][\A t \in Threads :
          (/\ pc[t] = "renew_lock" /\ Steps(t)
           /\ reference[arg_message[t]] \in DOMAIN locked_messages
           /\ ExpirationOf(arg_message[t]) > now)
          => locked_messages'[reference[arg_message[t]]].expiration_time.ms
                = now + arg_timeout[t]]_vars

\* --------------------------------------------------------------------- C10
\* C10: a lease lookup that misses is a silent no-op.  renew_lock, abandon,
\* complete or move_to_dead_letter on an envelope whose reference names no
\* entry of the lease table returns without an error and changes neither the
\* pending sequence nor the lease table.
C10_LookupMissIsSilent ==
    [][\A t \in Threads :
          (/\ pc[t] \in {"renew_lock", "abandon_lock", "complete_lock",
                         "dead_letter_lock"}
           /\ Steps(t)
           /\ reference[arg_message[t]] # NoToken
           /\ reference[arg_message[t]] \notin DOMAIN locked_messages)
          => /\ pc'[t] = "done" /\ error'[t] = None
             /\ UNCHANGED <<messages, locked_messages>>]_vars

\* --------------------------------------------------------------------- C11
\* envelope m holds a reference that names no entry of the lease table
Stale(m) == reference[m] # NoToken /\ reference[m] \notin DOMAIN locked_messages

C11_Step ==
    /\ \A t \in Threads :
          (pc[t] = "clear_lock" /\ Steps(t))
          => /\ messages' = <<>>
             /\ DOMAIN locked_messages' = {}
             /\ cancel' = FALSE
             /\ read_message_count' = 0
    /\ \A t \in Threads :
          (pc[t] = "renew_lock" /\ Steps(t) /\ Stale(arg_message[t]))
          => locked_messages' = locked_messages
    /\ \A m \in Envelopes :
          (Stale(m) /\ reference'[m] = reference[m]) => Stale(m)'

\* C11: clear, whether the queue is open, closed or was never opened, leaves
\* the pending sequence and the lease table empty and the cancel flag reset,
\* so that read_message_count is 0 right after it; a renew_lock on an envelope
\* whose lease the clear removed leaves the lease table as it is, and no
\* later step stores a lease under the token such an envelope still holds.
C11_ClearEmpties == [][C11_Step]_vars

\* on an open queue that was cleared, a renew_lock on an envelope leased
\* before the clear has ended and the lease table is empty
C11_Witness ==
    \E t \in Threads :
       /\ pc[t] = "done" /\ op[t] = "renew_lock"
       /\ Stale(arg_message[t])
       /\ DOMAIN locked_messages = {} /\ messages = <<>>
       /\ opened /\ ~cancel

\* --------------------------------------------------------------------- C12
\* the smaller of two numbers
Min(a, b) == IF a < b THEN a ELSE b

C12_Step ==
    \A t \in Threads :
       /\ (Steps(t) /\ (pc[t] \in {"peek_lock", "peek_batch_lock"}
                        \/ pc'[t] \in {"peek_lock", "peek_batch_lock"}))
          => UNCHANGED <<messages, locked_messages, lock_token_sequence, reference>>
       /\ (pc[t] = "peek_lock" /\ Steps(t))
          => /\ pc'[t] = "done" /\ error'[t] = None
             /\ result'[t] = IF messages = <<>> THEN None ELSE Head(messages)
       /\ (pc[t] = "peek_batch_lock" /\ Steps(t))
          => /\ pc'[t] = "done" /\ error'[t] = None
             /\ Len(result'[t]) = Min(arg_timeout[t], Len(messages))
             /\ \A i \in 1..Len(result'[t]) : result'[t][i] = messages[i]

\* C12: peek and peek_batch are read-only.  peek returns the head of the
\* pending sequence, or nothing when it is empty; peek_batch(n) returns the
\* first min(n, length) pending envelopes in their order; no step of either
\* changes the pending sequence, the lease table, the token counter or an
\* envelope's reference.
C12_PeekReadOnly == [][C12_Step]_vars

\* a peek_batch(1) has returned the head of two pending envelopes
C12_Witness ==
    \E t \in Threads :
       /\ pc[t] = "done" /\ op[t] = "peek_batch" /\ arg_timeout[t] = 1
       /\ Len(messages) = 2
       /\ result[t] = <<messages[1]>>

\* --------------------------------------------------------------------- C13
\* C13: close wakes a blocked receive.  A close called by another thread
\* while a receive waits on an empty queue takes effect during the wait: the
\* receive does not come to the end of its wait_timeout with that close still
\* waiting at its `with self._lock`.
C13_CloseWakesReceive ==
    [][\A t \in Threads :
          (pc[t] = "rcv_wait" /\ pc'[t] = "done")
          => \A u \in Threads : ~(pc[u] = "close_lock" /\ op[u] = "close")]_vars

\* --------------------------------------------------------------------- C14
C14_Step ==
    \A t \in Threads :
       \* the callback ends, raising or not: listen is back at its loop, no
       \* error has left it, and the queue is as it was
       /\ (pc[t] = "listen_callback" /\ Steps(t))
          => /\ pc'[t] = "listen_loop" /\ op'[t] = "listen"
             /\ error'[t] = None
             /\ Len(receiver') = Len(receiver) + 1
             /\ receiver'[Len(receiver')].message = message[t]
             /\ UNCHANGED <<messages, locked_messages, reference, cancel>>
       \* the loop goes on to the next receive unless the cancel flag is set
       /\ (pc[t] = "listen_loop" /\ Steps(t))
          => IF cancel THEN pc'[t] = "done" ELSE pc'[t] = "rcv_lock"
       \* a received message is dispatched unless the cancel flag is set,
       \* whatever the callback did before
       /\ (pc[t] = "done" /\ op[t] = "listen" /\ Steps(t) /\ result[t] # "stopped")
          => IF result[t] # None /\ ~cancel
             THEN pc'[t] = "listen_callback" /\ message'[t] = result[t]
             ELSE pc'[t] = "listen_loop"

\* C14: a failing receiver callback does not stop the listener.  When the
\* callback raises, the error stays inside that turn of the loop: listen is
\* back at `while not self.__cancel` with the queue unchanged, goes on to the
\* next receive as long as the cancel flag is not set, and passes what that
\* receive returns to the callback.
C14_CallbackErrorCaught == [][C14_Step]_vars

\* the callback raised for the first envelope and was called again with the
\* second
C14_Witness ==
    /\ Len(receiver) = 2
    /\ receiver[1].raised
    /\ receiver[1].message # receiver[2].message

\* --------------------------------------------------------------------- C15
\* C15: listener cancellation is effective.  Once end_listen or close has
\* set the cancel flag during a listen call, be it running or still before
\* its first `with self._lock`, that call returns the next time it is at
\* `while not self.__cancel`.
C15_CancelObserved ==
    [][\A t \in Threads :
          (pc[t] = "listen_loop" /\ Steps(t) /\ t \in stop_requested)
          => pc'[t] = "done"]_vars

\* --------------------------------------------------------------------- C16
\* envelope m is leased and the lease's time has run out
LeaseExpired(m) ==
    /\ reference[m] \in DOMAIN locked_messages
    /\ locked_messages[reference[m]].message = m
    /\ IsExpired(locked_messages[reference[m]].expiration_time, now)

\* a receive is returning envelope m
Delivering(m) ==
    \E t \in Threads : pc[t] = "done" /\ op[t] = "receive" /\ result[t] = m

\* C16: redelivery after lease expiry.  With consumers that keep calling
\* receive and never complete, abandon or dead-letter what they received,
\* an envelope whose lease has run out is returned by a receive again.
C16_RedeliveredAfterExpiry ==
    \A m \in Envelopes : LeaseExpired(m) ~> Delivering(m)

\* --------------------------------------------------------------------- C17
\* the tokens of the lease table whose entry is for envelope m
LeasesOf(m) == {k \in DOMAIN locked_messages : locked_messages[k].message = m}

\* C17: the lease-reference invariant.  An envelope's reference is non-empty
\* only while the lease table holds exactly one entry for that envelope, the
\* one under that token; no operation, clear included, leaves an envelope
\* with a reference whose entry is gone.
C17_ReferenceNamesLease ==
    \A m \in Envelopes :
       reference[m] # NoToken => LeasesOf(m) = {reference[m]}

\* --------------------------------------------------------------------- C18
\* every token in use is below the counter
C18_Below ==
    /\ \A k \in DOMAIN locked_messages : k < lock_token_sequence
    /\ \A m \in Envelopes : reference[m] < lock_token_sequence

\* the lease step of a receive stamps the envelope with the counter's value
\* and moves the counter on by one; no other step changes the counter
C18_Step ==
    /\ \A t \in Threads :
          (pc[t] = "rcv_lease" /\ Steps(t))
          => /\ reference'[message[t]] = lock_token_sequence
             /\ lock_token_sequence \in DOMAIN locked_messages'
             /\ lock_token_sequence' = lock_token_sequence + 1
    /\ (\A t \in Threads : ~(pc[t] = "rcv_lease" /\ Steps(t)))
          => lock_token_sequence' = lock_token_sequence

\* C18: lease tokens are unique and strictly increasing.  Each successful
\* receive is stamped with the counter's value, which is above every token in
\* the lease table or on an envelope, and moves the counter on by one; no
\* other step, clear, close and open included, changes the counter, so a
\* token is above all tokens issued before it and is never issued again.
C18_TokensIncrease == []C18_Below /\ [][C18_Step]_vars

\* on a re-opened queue, after a clear, a receive has returned an envelope
\* stamped with the second token, the only one in the lease table
C18_Witness ==
    \E t \in Threads :
       /\ pc[t] = "done" /\ op[t] = "receive" /\ result[t] \in Envelopes
       /\ reference[result[t]] = 1
       /\ DOMAIN locked_messages = {1}
       /\ opened /\ cancel

\* --------------------------------------------------------------------- C19
\* thread t holds an envelope that has left the pending sequence for the
\* lease table, or the lease table for the pending sequence, and has not
\* arrived
InTransfer(t) ==
    \/ pc[t] = "rcv_lease"
    \/ pc[t] = "send_lock" /\ op[t] = "abandon"

\* thread u runs a clear or the first block of a receive, or reads the
\* message count
Operates(u) ==
    \/ pc[u] \in {"clear_lock", "rcv_lock"} /\ Steps(u)
    \/ pc[u] = "idle" /\ op'[u] = "read_message_count"

\* C19: ownership transfers are atomic.  While a receive or an abandon holds
\* an envelope that has left one structure and not yet entered the other, no
\* other thread's clear, receive or read_message_count runs.
C19_TransferAtomic ==
    [][\A t \in Threads :
          InTransfer(t) => \A u \in Threads \ {t} : ~Operates(u)]_vars

\* --------------------------------------------------------------------- C20
\* C20: settling calls on one lease do not race.  A settling call that found
\* a reference on its envelope and then finds it cleared, because another
\* settling call on the same envelope went first, is a no-op: it raises no
\* error and changes neither the pending sequence nor the lease table.
C20_SecondSettleIsNoOp ==
    [][\A t \in Threads :
          (/\ pc[t] \in {"renew_lock", "abandon_lock", "complete_lock",
                         "dead_letter_lock"}
           /\ Steps(t)
           /\ reference[arg_message[t]] = NoToken)
          => /\ pc'[t] = "done" /\ error'[t] = None
             /\ UNCHANGED <<messages, locked_messages>>]_vars

\* --------------------------------------------------------------------- C21
\* the places of the pending sequence that hold envelope m
PendingAt(m) == {i \in 1..Len(messages) : messages[i] = m}

\* the copies of envelope m the queue holds, pending or leased
Copies(m) == Cardinality(PendingAt(m)) + Cardinality(LeasesOf(m))

\* C21: no duplication.  An envelope that is passed to send once is, in every
\* state, at most once in the pending sequence and the lease table together:
\* never pending twice, never leased under two tokens, never pending and
\* leased at once.
C21_NoDuplication == \A m \in Envelopes : Copies(m) <= 1

\* an abandon has put back, as its only copy, an envelope that had been
\* delivered twice
C21_Witness ==
    \E t \in Threads :
       /\ pc[t] = "done" /\ op[t] = "abandon" /\ result[t] = "resent"
       /\ lock_token_sequence = 2
       /\ unsent = Envelopes \ {arg_message[t]}
       /\ Copies(arg_message[t]) = 1

====
